---------------------------- MODULE Spec2Model ----------------------------
(***************************************************************************)
(* Telemetry server: the TelemetrySimulator (server/simulator.py), the     *)
(* shared sqlite3 connection it writes through (server/db.py, app.py),     *)
(* the /latest and /history read paths (server/app.py), the application of *)
(* the migration scripts at startup (server/db.py) and the values the      *)
(* simulator draws (server/simulator.py, _value_for).                      *)
(*                                                                         *)
(* Time is counted in units of the tick period interval_s = 0.5 s: the     *)
(* sleep between ticks lasts at least 1 unit, and ts_ms is the clock value *)
(* read at the top of a tick.  No step has an upper bound on its duration  *)
(* (a write may stall on the database), so the 2.0 s timeout of the join   *)
(* in stop() may elapse at any point of the wait.                          *)
(***************************************************************************)
EXTENDS Integers, Sequences, FiniteSets, TLC

\* ------------------------------------------------------------- bounds ---
MaxThreads == 2      \* threads start() may spawn in one behaviour
MaxTime == 2         \* the clock runs over 0..MaxTime
NumCallers == 2      \* concurrent HTTP callers of /simulate/stop
MaxTicks == 2        \* ticks begun in one behaviour
MaxLimit == 3        \* small limits a /history request may carry
MaxScripts == 2      \* migration scripts in MIGRATIONS_DIR
MaxStmts == 2        \* statements of one migration script
MaxRuns == 3         \* runs of apply_migrations over one database file
MaxT == 3            \* the clock values _value_for is called with: 0..MaxT (in pi seconds)

\* -------------------------------------------------- program constants ---
Interval == 1        \* interval_s = 0.5 s, the unit of time

\* the catalog seed() installs (a bounded part of it), in insertion order
MachineSeq == <<"m-001">>
MetricSeq == <<"temperature", "pressure">>
Machines == {MachineSeq[i] : i \in 1..Len(MachineSeq)}
Metrics == {MetricSeq[i] : i \in 1..Len(MetricSeq)}
\* metric keys in the collation order ORDER BY metric_key uses
MetricKeyOrder == <<"pressure", "temperature">>
\* machine ids a request may name: the catalog's and one unknown id
MachineIds == Machines \cup {"does-not-exist"}

\* /history: limit: int = Query(500, ge=1, le=5000)
LimitDefault == 500
LimitMin == 1
LimitMax == 5000
\* start_ms, end_ms and limit when the request omits them
NoBound == -1
\* the limits a request may carry: small ones, the edges of the range, none
Limits == (0..MaxLimit) \cup {LimitMax, LimitMax + 1, NoBound}

Threads == 1..MaxThreads
Callers == 1..NumCallers
Times == 0..MaxTime

VARIABLES
    running,          \* self._running
    stop_event,       \* self._stop (threading.Event)
    thread,           \* self._thread: 0 is None, else the last thread created
    starting,         \* self._lock is held by a start() that has yet to start its thread
    wpc,              \* position of each worker thread in _run_loop
    wrows,            \* rows of the tick a worker is writing
    widx,             \* rows of wrows executemany has executed so far
    wake,             \* earliest time a sleeping worker returns from sleep
    committed,        \* the readings table as committed in the database
    work,             \* the readings table as the shared connection sees it
    now,              \* the clock, in intervals
    cpc,              \* position of each caller inside stop()
    jthread,          \* the thread a caller's join() waits for
    resp,             \* the last response of a query handler
    nticks,           \* ticks begun so far
    startsSinceStop,  \* history: start() calls since the last stop() (max 2)
    spawnedSinceStop, \* history: threads spawned since the last stop() (max 2)
    quiet,            \* history: a stop() took its lock, no start() since
    stopReturned,     \* history: a stop() returned, no start() since
    schema,           \* how often each statement of each migration script has taken effect
    schema_migrations, \* the versions recorded in table schema_migrations
    mig,              \* apply_migrations: its position and its locals
    sample            \* the last call of _value_for: its arguments and its result

vars == <<running, stop_event, thread, starting, wpc, wrows, widx, wake, committed, work,
          now, cpc, jthread, resp, nticks, startsSinceStop,
          spawnedSinceStop, quiet, stopReturned, schema, schema_migrations,
          mig, sample>>

genVars == <<running, stop_event, thread, starting>>
workerVars == <<wpc, wrows, widx, wake, nticks>>
dbVars == <<committed, work>>
callerVars == <<cpc, jthread>>
histVars == <<startsSinceStop, spawnedSinceStop, quiet, stopReturned>>
migVars == <<schema, schema_migrations, mig>>
serverVars == <<genVars, workerVars, dbVars, now, callerVars, resp, histVars>>

Min(a, b) == IF a < b THEN a ELSE b
Sat2(n) == Min(n + 1, 2)

\* ------------------------------------------------------------ store ---
Reading(m, k, ts, v) == [machine_id |-> m, metric_key |-> k, ts_ms |-> ts, value |-> v]

\* the unique key of the readings table
ReadingKey(r) == <<r.machine_id, r.metric_key, r.ts_ms>>

HasKey(S, r) == \E q \in S : ReadingKey(q) = ReadingKey(r)

InsertOrReplace(S, r) == {q \in S : ReadingKey(q) # ReadingKey(r)} \cup {r}

\* INSERT OR IGNORE INTO readings(...) VALUES (?,?,?,?) for one row
InsertOrIgnore(S, r) == IF HasKey(S, r) THEN S ELSE S \cup {r}

NoResponse == [op |-> "none", status |-> 0, machine_id |-> "", rows |-> <<>>]

\* ------------------------------------------------------- migrations ---
\* the *.sql files of MIGRATIONS_DIR, named by their rank in lexical order
Versions == 1..MaxScripts
Stmts == 1..MaxStmts

RECURSIVE sorted(_)
\* sorted(MIGRATIONS_DIR.glob("*.sql")): glob yields the files in no
\* particular order, sorted puts them in the order of their names
sorted(S) ==
    IF S = {} THEN <<>>
    ELSE LET x == CHOOSE y \in S : \A z \in S : y <= z
         IN  <<x>> \o sorted(S \ {x})

NoSchema == [v \in Versions |-> [i \in Stmts |-> 0]]
Migrated == [v \in Versions |-> [i \in Stmts |-> 1]]

MigIdle == [pc |-> "idle", applied |-> {}, files |-> <<>>, idx |-> 0, stmt |-> 0,
            pre |-> NoSchema, runs |-> 0]

\* the version the for loop of apply_migrations is at
MigVersion == mig.files[mig.idx]

\* apply_migrations up to the for loop: schema_migrations is created if
\* missing, the recorded versions are read and the files are sorted
apply_migrations ==
    /\ mig.pc \in {"idle", "done", "failed"}
    /\ mig.runs < MaxRuns
    /\ mig' = [pc |-> "for", applied |-> schema_migrations,
               files |-> sorted(Versions), idx |-> 1, stmt |-> 0,
               pre |-> schema, runs |-> mig.runs + 1]
    /\ UNCHANGED <<schema, schema_migrations>>
    /\ UNCHANGED <<serverVars, sample>>

\* the head of `for mf in migration_files`: the loop ends, or a version
\* already applied is skipped, or the script of the next version begins
for_mf ==
    /\ mig.pc = "for"
    /\ IF mig.idx > Len(mig.files)
         THEN mig' = [mig EXCEPT !.pc = "done"]
         ELSE IF MigVersion \in mig.applied
         THEN mig' = [mig EXCEPT !.idx = mig.idx + 1]
         ELSE mig' = [mig EXCEPT !.pc = "script", !.stmt = 0, !.pre = schema]
    /\ UNCHANGED <<schema, schema_migrations>>
    /\ UNCHANGED <<serverVars, sample>>

\* conn.executescript(sql) runs the next statement of the script.
\* executescript commits whatever transaction is open and runs the script's
\* statements in autocommit mode: each takes effect in the database at once.
executescript_step ==
    /\ mig.pc = "script"
    /\ mig.stmt < MaxStmts
    /\ schema' = [schema EXCEPT ![MigVersion][mig.stmt + 1] = Min(@ + 1, 2)]
    /\ mig' = [mig EXCEPT !.stmt = mig.stmt + 1]
    /\ UNCHANGED schema_migrations
    /\ UNCHANGED <<serverVars, sample>>

\* what the rollback of `with conn:` leaves when its body raised: it undoes
\* the transaction open on the connection, and the statements executescript
\* ran are in none
Rollback(cur, pre) == cur

\* a statement of the script raises: `with conn:` rolls back and re-raises,
\* apply_migrations ends with the exception
executescript_fails ==
    /\ mig.pc = "script"
    /\ mig.stmt < MaxStmts
    /\ schema' = Rollback(schema, mig.pre)
    /\ mig' = [mig EXCEPT !.pc = "failed"]
    /\ UNCHANGED schema_migrations
    /\ UNCHANGED <<serverVars, sample>>

\* INSERT INTO schema_migrations(version) and the commit on leaving
\* `with conn:`; the loop goes on with the next file
record_version ==
    /\ mig.pc = "script"
    /\ mig.stmt = MaxStmts
    /\ schema_migrations' = schema_migrations \cup {MigVersion}
    /\ mig' = [mig EXCEPT !.pc = "for", !.idx = mig.idx + 1]
    /\ UNCHANGED schema
    /\ UNCHANGED <<serverVars, sample>>

\* the INSERT or the commit raises after the script has run
record_fails ==
    /\ mig.pc = "script"
    /\ mig.stmt = MaxStmts
    /\ schema' = Rollback(schema, mig.pre)
    /\ mig' = [mig EXCEPT !.pc = "failed"]
    /\ UNCHANGED schema_migrations
    /\ UNCHANGED <<serverVars, sample>>

\* ----------------------------------------------------------- values ---
\* Angles are counted in steps of pi/12 and values in units of 10^-4.
\* t is in units of pi seconds (t/6, t/4, t/2 are 2t, 3t, 6t steps), a machine
\* phase mp in units of 10 steps (0.7 mp is 7 mp steps) and a metric phase kp
\* in steps; both phases are random.random() * 10.0, in [0, 10) radians.
MpMax == 3
KpMax == 38
\* random.uniform(-0.5, 0.5)
Noises == {-5000, -2500, 0, 2500, 5000}
\* the metrics seed() installs
SeedMetrics == {"temperature", "pressure", "vibration"}

\* 10^4 sin(i pi/12), i = 0..6
SinQuarter == <<0, 2588, 5000, 7071, 8660, 9659, 10000>>

\* math.sin of an angle of a steps
sin(a) ==
    LET r == a % 24
    IN  IF r <= 6 THEN SinQuarter[r + 1]
        ELSE IF r <= 12 THEN SinQuarter[13 - r]
        ELSE IF r <= 18 THEN 0 - SinQuarter[r - 11]
        ELSE 0 - SinQuarter[25 - r]

abs(x) == IF x < 0 THEN 0 - x ELSE x

value_for_noise_unscaled(metric_key, t, mp, kp, noise) ==
    700000 + 5 * sin(2 * t + 10 * mp + kp) + 2 * noise

\* _value_for, noise being the draw of random.uniform(-0.5, 0.5)
value_for(metric_key, t, mp, kp, noise) ==
    CASE metric_key = "temperature" ->
             700000 + 5 * sin(2 * t + 10 * mp + kp) + noise
      [] metric_key = "pressure" ->
             1013000 + 2 * sin(3 * t + 7 * mp + kp) + (noise * 3) \div 10
      [] metric_key = "vibration" ->
             30000 + (15 * abs(sin(6 * t + 10 * mp + kp))) \div 10 + (noise * 2) \div 10
      [] OTHER ->
             100000 + sin(12 * t + 10 * mp + kp) + noise

\* no value yet
NoValue == -1
NoSample == [metric_key |-> "", t |-> 0, mp |-> 0, kp |-> 0, noise |-> 0,
             value |-> NoValue]

\* ------------------------------------------------------------- Init ---
Init ==
    /\ running = FALSE
    /\ stop_event = FALSE
    /\ thread = 0
    /\ starting = FALSE
    /\ wpc = [w \in Threads |-> "unborn"]
    /\ wrows = [w \in Threads |-> <<>>]
    /\ widx = [w \in Threads |-> 0]
    /\ wake = [w \in Threads |-> 0]
    /\ committed = {}
    /\ work = {}
    /\ now = 0
    /\ cpc = [c \in Callers |-> "idle"]
    /\ jthread = [c \in Callers |-> 0]
    /\ resp = NoResponse
    /\ nticks = 0
    /\ startsSinceStop = 0
    /\ spawnedSinceStop = 0
    /\ quiet = FALSE
    /\ stopReturned = FALSE
    /\ schema = Migrated
    /\ schema_migrations = Versions
    /\ mig = [MigIdle EXCEPT !.pc = "done", !.runs = 1]
    /\ sample = NoSample

\* -------------------------------------------------------- generator ---
is_running == running

StartNoCheck ==
    /\ ~starting
    /\ thread < MaxThreads
    /\ running' = TRUE
    /\ stop_event' = FALSE
    /\ thread' = thread + 1
    /\ wpc' = [wpc EXCEPT ![thread + 1] = "created"]
    /\ starting' = TRUE
    /\ spawnedSinceStop' = Sat2(spawnedSinceStop)
    /\ startsSinceStop' = Sat2(startsSinceStop)
    /\ quiet' = FALSE
    /\ stopReturned' = FALSE
    /\ UNCHANGED <<wrows, widx, wake, nticks, dbVars, now, callerVars, resp>>
    /\ UNCHANGED <<migVars, sample>>

\* start() up to the creation of the Thread object, under self._lock; the
\* lock stays held until thread_start
start ==
    /\ ~starting
    /\ running \/ thread < MaxThreads
    /\ IF running
         THEN UNCHANGED <<genVars, wpc, spawnedSinceStop>>
         ELSE /\ running' = TRUE
              /\ stop_event' = FALSE
              /\ thread' = thread + 1
              /\ wpc' = [wpc EXCEPT ![thread + 1] = "created"]
              /\ starting' = TRUE
              /\ spawnedSinceStop' = Sat2(spawnedSinceStop)
    /\ startsSinceStop' = Sat2(startsSinceStop)
    /\ quiet' = FALSE
    /\ stopReturned' = FALSE
    /\ UNCHANGED <<wrows, widx, wake, nticks, dbVars, now, callerVars, resp>>
    /\ UNCHANGED <<migVars, sample>>

\* start(): self._thread.start(), then the lock is released
thread_start ==
    /\ starting
    /\ wpc' = [wpc EXCEPT ![thread] = "init"]
    /\ starting' = FALSE
    /\ UNCHANGED <<running, stop_event, thread, wrows, widx, wake, nticks, dbVars,
                   now, callerVars, resp, histVars>>
    /\ UNCHANGED <<migVars, sample>>

\* stop(), the part under self._lock
stop_locked(c) ==
    /\ ~starting
    /\ cpc[c] = "idle"
    /\ IF ~running
         THEN /\ stopReturned' = TRUE
              /\ UNCHANGED <<genVars, cpc>>
         ELSE /\ running' = FALSE
              /\ stop_event' = TRUE
              /\ cpc' = [cpc EXCEPT ![c] = "unlocked"]
              /\ UNCHANGED <<thread, starting, stopReturned>>
    /\ quiet' = TRUE
    /\ startsSinceStop' = 0
    /\ spawnedSinceStop' = 0
    /\ UNCHANGED <<workerVars, dbVars, now, jthread, resp>>
    /\ UNCHANGED <<migVars, sample>>

\* stop(): `if self._thread:` is read after the lock is released and the join
\* begins; join() on a Thread object a concurrent start() has created but not
\* yet started raises RuntimeError, which ends the call
stop_join(c) ==
    /\ cpc[c] = "unlocked"
    /\ IF thread = 0
         THEN /\ cpc' = [cpc EXCEPT ![c] = "idle"]
              /\ stopReturned' = TRUE
              /\ UNCHANGED jthread
         ELSE IF wpc[thread] = "created"
         THEN /\ cpc' = [cpc EXCEPT ![c] = "idle"]
              /\ UNCHANGED <<jthread, stopReturned>>
         ELSE /\ cpc' = [cpc EXCEPT ![c] = "joining"]
              /\ jthread' = [jthread EXCEPT ![c] = thread]
              /\ UNCHANGED stopReturned
    /\ UNCHANGED <<genVars, workerVars, dbVars, now, resp,
                   startsSinceStop, spawnedSinceStop, quiet>>
    /\ UNCHANGED <<migVars, sample>>

ThreadDead(w) == wpc[w] \in {"exited", "crashed"}

JoinNoTimeout(c) == ThreadDead(jthread[c])

\* the timeout of join(timeout=2.0) elapses
JoinTimeout == TRUE

\* when self._thread.join(timeout=2.0) returns: the thread has ended, or the
\* timeout has elapsed
JoinReturns(c) == ThreadDead(jthread[c]) \/ JoinTimeout

stop_return(c) ==
    /\ cpc[c] = "joining"
    /\ JoinReturns(c)
    /\ cpc' = [cpc EXCEPT ![c] = "idle"]
    /\ jthread' = [jthread EXCEPT ![c] = 0]
    /\ stopReturned' = TRUE
    /\ UNCHANGED <<genVars, workerVars, dbVars, now, resp,
                   startsSinceStop, spawnedSinceStop, quiet>>
    /\ UNCHANGED <<migVars, sample>>


\* ----------------------------------------------------------- worker ---
NPairs == Len(MachineSeq) * Len(MetricSeq)

PairAtFirstMetric(i) ==
    <<MachineSeq[((i - 1) \div Len(MetricSeq)) + 1], MetricSeq[1]>>

\* the (machine, metric) pair of the i-th row of a tick: machines outer loop,
\* metrics inner loop
PairAt(i) ==
    <<MachineSeq[((i - 1) \div Len(MetricSeq)) + 1],
      MetricSeq[((i - 1) % Len(MetricSeq)) + 1]>>

\* _value_for draws fresh noise for every row of every tick, so the values of
\* two ticks are told apart: the value of a row is modelled by the number of
\* the tick that drew it
ValueToken(k, tick) == tick

\* rows of one tick: one row per pair, all stamped now_ms
TickRows(ts, tick) ==
    [i \in 1..NPairs |->
        Reading(PairAt(i)[1], PairAt(i)[2], ts, ValueToken(PairAt(i)[2], tick))]

\* _run_loop before the while: the catalog is read, the phases are drawn
run_loop_init(w) ==
    /\ wpc[w] = "init"
    /\ wpc' = [wpc EXCEPT ![w] = "loop"]
    /\ UNCHANGED <<genVars, wrows, widx, wake, nticks, dbVars, now, callerVars,
                   resp, histVars>>
    /\ UNCHANGED <<migVars, sample>>

LoopForever == FALSE

\* self._stop.is_set(), as the loop head reads it
StopSeen == stop_event

\* `while not self._stop.is_set()` is false: the loop and the thread end
run_loop_exit(w) ==
    /\ wpc[w] = "loop"
    /\ StopSeen
    /\ wpc' = [wpc EXCEPT ![w] = "exited"]
    /\ UNCHANGED <<genVars, wrows, widx, wake, nticks, dbVars, now, callerVars,
                   resp, histVars>>
    /\ UNCHANGED <<migVars, sample>>

\* one pass of the loop head: the clock is read and the rows are computed
run_loop_compute(w) ==
    /\ wpc[w] = "loop"
    /\ ~StopSeen
    /\ nticks < MaxTicks
    /\ wrows' = [wrows EXCEPT ![w] = TickRows(now, nticks + 1)]
    /\ widx' = [widx EXCEPT ![w] = 0]
    /\ wpc' = [wpc EXCEPT ![w] = "write"]
    /\ nticks' = nticks + 1
    /\ UNCHANGED <<genVars, wake, dbVars, now, callerVars, resp, histVars>>
    /\ UNCHANGED <<migVars, sample>>

\* executemany: the next row of the batch is inserted in the connection's
\* open transaction
executemany_step(w) ==
    /\ wpc[w] = "write"
    /\ widx[w] < Len(wrows[w])
    /\ work' = InsertOrIgnore(work, wrows[w][widx[w] + 1])
    /\ widx' = [widx EXCEPT ![w] = widx[w] + 1]
    /\ UNCHANGED <<genVars, wpc, wrows, wake, nticks, committed, now, callerVars,
                   resp, histVars>>
    /\ UNCHANGED <<migVars, sample>>

\* leaving `with self._conn:` normally commits the connection's transaction;
\* then time.sleep(self.interval_s) begins
commit(w) ==
    /\ wpc[w] = "write"
    /\ widx[w] = Len(wrows[w])
    /\ committed' = work
    /\ wpc' = [wpc EXCEPT ![w] = "sleep"]
    /\ wrows' = [wrows EXCEPT ![w] = <<>>]
    /\ widx' = [widx EXCEPT ![w] = 0]
    /\ wake' = [wake EXCEPT ![w] = now + Interval]
    /\ UNCHANGED <<genVars, nticks, work, now, callerVars, resp, histVars>>
    /\ UNCHANGED <<migVars, sample>>

\* where a worker goes when its write raises: nothing in _run_loop catches
\* the exception, so the thread ends
OnWriteError == "crashed"

\* the write raises (executemany or the commit): `with self._conn:` rolls the
\* connection's transaction back and re-raises
write_fails(w) ==
    /\ wpc[w] = "write"
    /\ work' = committed
    /\ wpc' = [wpc EXCEPT ![w] = OnWriteError]
    /\ wrows' = [wrows EXCEPT ![w] = <<>>]
    /\ widx' = [widx EXCEPT ![w] = 0]
    /\ wake' = [wake EXCEPT ![w] = IF OnWriteError = "sleep" THEN now + Interval ELSE 0]
    /\ UNCHANGED <<genVars, nticks, committed, now, callerVars, resp, histVars>>
    /\ UNCHANGED <<migVars, sample>>

\* time.sleep(self.interval_s) returns
run_loop_wake(w) ==
    /\ wpc[w] = "sleep"
    /\ now >= wake[w]
    /\ wpc' = [wpc EXCEPT ![w] = "loop"]
    /\ wake' = [wake EXCEPT ![w] = 0]
    /\ UNCHANGED <<genVars, wrows, widx, nticks, dbVars, now, callerVars, resp,
                   histVars>>
    /\ UNCHANGED <<migVars, sample>>

\* the clock advances (monotonic)
advance ==
    /\ now < MaxTime
    /\ now' = now + 1
    /\ UNCHANGED <<genVars, workerVars, dbVars, callerVars, resp, histVars>>
    /\ UNCHANGED <<migVars, sample>>

\* ---------------------------------------------------------- queries ---
\* position of a metric key in the collation order
KeyRank(k) == CHOOSE i \in 1..Len(MetricKeyOrder) : MetricKeyOrder[i] = k

RECURSIVE OrderByMetricKey(_)
\* the rows of S as a sequence, ORDER BY metric_key
OrderByMetricKey(S) ==
    IF S = {} THEN <<>>
    ELSE LET x == CHOOSE y \in S :
                    \A z \in S : KeyRank(y.metric_key) <= KeyRank(z.metric_key)
         IN  <<x>> \o OrderByMetricKey(S \ {x})

NoReverse(s) == s

Reverse(s) == [i \in 1..Len(s) |-> s[Len(s) + 1 - i]]

Take(s, n) == SubSeq(s, 1, Min(n, Len(s)))

SamePair(q, r) == q.machine_id = r.machine_id /\ q.metric_key = r.metric_key

\* latest_readings: the most recent reading of each (machine_id, metric_key)
latest_readings(S) == {r \in S : \A q \in S : SamePair(q, r) => q.ts_ms <= r.ts_ms}

get_latest_unchecked(S, machine_id) ==
    [op |-> "latest", status |-> 200, machine_id |-> machine_id,
     rows |-> OrderByMetricKey({r \in latest_readings(S) : r.machine_id = machine_id})]

\* get_latest: 404 unless the machine is in the catalog, else the rows of
\* latest_readings for it, ORDER BY metric_key
get_latest(S, machine_id) ==
    IF machine_id \notin Machines
      THEN [op |-> "latest", status |-> 404, machine_id |-> machine_id, rows |-> <<>>]
      ELSE [op |-> "latest", status |-> 200, machine_id |-> machine_id,
            rows |-> OrderByMetricKey(
                       {r \in latest_readings(S) : r.machine_id = machine_id})]

\* GET /latest on the shared connection
latest(machine_id) ==
    /\ resp' = get_latest(work, machine_id)
    /\ UNCHANGED <<genVars, workerVars, dbVars, now, callerVars, histVars>>
    /\ UNCHANGED <<migVars, sample>>

RECURSIVE OrderByTsAsc(_)
OrderByTsAsc(S) ==
    IF S = {} THEN <<>>
    ELSE LET x == CHOOSE y \in S : \A z \in S : y.ts_ms <= z.ts_ms
         IN  <<x>> \o OrderByTsAsc(S \ {x})

RECURSIVE OrderByTsDesc(_)
\* the rows of S as a sequence, ORDER BY ts_ms DESC
OrderByTsDesc(S) ==
    IF S = {} THEN <<>>
    ELSE LET x == CHOOSE y \in S : \A z \in S : y.ts_ms >= z.ts_ms
         IN  <<x>> \o OrderByTsDesc(S \ {x})

\* ReadingPoint(**dict(r)) of a row of SELECT ts_ms, value
ReadingPoint(r) == [ts_ms |-> r.ts_ms, value |-> r.value]

\* the WHERE clause get_history builds
HistoryWhere(S, machine_id, metric_key, start_ms, end_ms) ==
    {r \in S : /\ r.machine_id = machine_id
               /\ r.metric_key = metric_key
               /\ (start_ms # NoBound => r.ts_ms >= start_ms)
               /\ (end_ms # NoBound => r.ts_ms <= end_ms)}

get_history_clamped(S, machine_id, metric_key, start_ms, end_ms, limit) ==
    LET lim == IF limit = NoBound THEN LimitDefault
               ELSE IF limit < LimitMin THEN LimitMin
               ELSE IF limit > LimitMax THEN LimitMax ELSE limit
        rows == Take(OrderByTsDesc(
                       HistoryWhere(S, machine_id, metric_key, start_ms, end_ms)), lim)
    IN  [op |-> "history", machine_id |-> machine_id, metric_key |-> metric_key,
         start_ms |-> start_ms, end_ms |-> end_ms, given |-> limit, limit |-> lim,
         status |-> 200,
         rows |-> Reverse([i \in 1..Len(rows) |-> ReadingPoint(rows[i])])]

\* get_history: 422 when limit is outside [1, 5000] (an omitted limit is
\* 500); else the rows WHERE ... ORDER BY ts_ms DESC LIMIT ?, reversed
get_history(S, machine_id, metric_key, start_ms, end_ms, limit) ==
    LET lim == IF limit = NoBound THEN LimitDefault ELSE limit
        req == [op |-> "history", machine_id |-> machine_id,
                metric_key |-> metric_key, start_ms |-> start_ms,
                end_ms |-> end_ms, given |-> limit, limit |-> lim]
    IN  IF lim < LimitMin \/ lim > LimitMax
          THEN req @@ [status |-> 422, rows |-> <<>>]
          ELSE LET rows == Take(OrderByTsDesc(
                               HistoryWhere(S, machine_id, metric_key, start_ms, end_ms)),
                               lim)
                   points == [i \in 1..Len(rows) |-> ReadingPoint(rows[i])]
               IN  req @@ [status |-> 200, rows |-> Reverse(points)]

\* GET /history on the shared connection
history(machine_id, metric_key, start_ms, end_ms, limit) ==
    /\ resp' = get_history(work, machine_id, metric_key, start_ms, end_ms, limit)
    /\ UNCHANGED <<genVars, workerVars, dbVars, now, callerVars, histVars>>
    /\ UNCHANGED <<migVars, sample>>


\* ------------------------------------------------------------- Next ---
Next ==
    \/ start
    \/ thread_start
    \/ \E c \in Callers : stop_locked(c)
    \/ \E c \in Callers : stop_join(c)
    \/ \E c \in Callers : stop_return(c)
    \/ \E w \in Threads : run_loop_init(w)
    \/ \E w \in Threads : run_loop_exit(w)
    \/ \E w \in Threads : run_loop_compute(w)
    \/ \E w \in Threads : executemany_step(w)
    \/ \E w \in Threads : commit(w)
    \/ \E w \in Threads : write_fails(w)
    \/ \E w \in Threads : run_loop_wake(w)
    \/ advance
    \/ \E m \in MachineIds : latest(m)

Spec == Init /\ [][Next]_vars

\* a caller inside stop() keeps running: once it may take its next step it
\* takes it.  Nothing is assumed of the worker threads.
FairSpec ==
    Spec /\ \A c \in Callers : WF_vars(stop_join(c)) /\ WF_vars(stop_return(c))

\* the readings of the ticks stamped with the times in T
StoreOf(T) ==
    UNION {{TickRows(ts, ts + 1)[i] : i \in 1..NPairs} : ts \in T}

\* readings of a machine the catalog does not list: the foreign keys of the
\* file are enforced only on connections that set the pragma, so a file other
\* tools have written may hold them
Orphans == {Reading("does-not-exist", MetricSeq[1], 0, 1)}

\* the server at startup over a database file earlier runs have filled: the
\* generator is stopped and the store holds the ticks of some set of times,
\* with or without readings of an unlisted machine
QueryInit ==
    /\ running = FALSE
    /\ stop_event = FALSE
    /\ thread = 0
    /\ starting = FALSE
    /\ wpc = [w \in Threads |-> "unborn"]
    /\ wrows = [w \in Threads |-> <<>>]
    /\ widx = [w \in Threads |-> 0]
    /\ wake = [w \in Threads |-> 0]
    /\ \E T \in SUBSET Times, O \in SUBSET Orphans : committed = StoreOf(T) \cup O
    /\ work = committed
    /\ now = 0
    /\ cpc = [c \in Callers |-> "idle"]
    /\ jthread = [c \in Callers |-> 0]
    /\ resp = NoResponse
    /\ nticks = 0
    /\ startsSinceStop = 0
    /\ spawnedSinceStop = 0
    /\ quiet = FALSE
    /\ stopReturned = FALSE
    /\ schema = Migrated
    /\ schema_migrations = Versions
    /\ mig = [MigIdle EXCEPT !.pc = "done", !.runs = 1]
    /\ sample = NoSample

\* no request has been served since startup
FirstRequest == resp = NoResponse

\* the read handlers alone, serving the first request: they only read, so
\* an answer depends on the store and the request and on no earlier answer
QueryNext ==
    \/ \E m \in MachineIds : FirstRequest /\ latest(m)
    \/ \E m \in MachineIds, k \in Metrics,
          a \in Times \cup {NoBound}, b \in Times \cup {NoBound}, l \in Limits :
          FirstRequest /\ history(m, k, a, b, l)

QuerySpec == QueryInit /\ [][QueryNext]_vars

\* the simulator as constructed, over an empty readings table
Stopped ==
    /\ running = FALSE
    /\ stop_event = FALSE
    /\ thread = 0
    /\ starting = FALSE
    /\ wpc = [w \in Threads |-> "unborn"]
    /\ wrows = [w \in Threads |-> <<>>]
    /\ widx = [w \in Threads |-> 0]
    /\ wake = [w \in Threads |-> 0]
    /\ committed = {}
    /\ work = {}
    /\ now = 0
    /\ cpc = [c \in Callers |-> "idle"]
    /\ jthread = [c \in Callers |-> 0]
    /\ resp = NoResponse
    /\ nticks = 0
    /\ startsSinceStop = 0
    /\ spawnedSinceStop = 0
    /\ quiet = FALSE
    /\ stopReturned = FALSE

\* on_startup over a new database file, before the simulator is started
MigInit ==
    /\ Stopped
    /\ schema = NoSchema
    /\ schema_migrations = {}
    /\ mig = MigIdle
    /\ sample = NoSample

\* apply_migrations alone; it runs again each time the process starts
MigNext ==
    \/ apply_migrations
    \/ for_mf
    \/ executescript_step
    \/ executescript_fails
    \/ record_version
    \/ record_fails

MigSpec == MigInit /\ [][MigNext]_vars

\* the arguments of a call of _value_for and the noise it is about to draw
ValueInit ==
    /\ Stopped
    /\ schema = Migrated
    /\ schema_migrations = Versions
    /\ mig = [MigIdle EXCEPT !.pc = "done", !.runs = 1]
    /\ \E k \in SeedMetrics, t \in 0..MaxT, mp \in 0..MpMax, kp \in 0..KpMax,
          noise \in Noises :
          sample = [metric_key |-> k, t |-> t, mp |-> mp, kp |-> kp,
                    noise |-> noise, value |-> NoValue]

\* the call of _value_for returns
call_value_for ==
    /\ sample.value = NoValue
    /\ sample' = [sample EXCEPT !.value =
                    value_for(sample.metric_key, sample.t, sample.mp, sample.kp,
                              sample.noise)]
    /\ UNCHANGED <<serverVars, migVars>>

\* _value_for alone, over its arguments and its noise draws
ValueSpec == ValueInit /\ [][call_value_for]_vars

\* ----------------------------------------------------------- claims ---
Alive(w) == wpc[w] \in {"init", "loop", "write", "sleep"}
TickInProgress(w) == wpc[w] = "write"

\* C1: from Stopped, any number of start() calls with no stop() in between
\* spawn exactly one tick-loop thread (the first call spawns it, the others
\* are no-ops) and is_running() is true afterwards.
C1_StartOnce == startsSinceStop >= 1 => (is_running /\ spawnedSinceStop = 1)

\* two start() calls since the last stop(), one thread spawned
C1_Witness == startsSinceStop = 2 /\ spawnedSinceStop = 1 /\ is_running

\* C2: ticks never overlap: at no time are two ticks (compute + batch write)
\* in progress, whatever the interleaving of start(), stop() and the loop.
C2_NoOverlap == Cardinality({w \in Threads : TickInProgress(w)}) <= 1

\* C3 as claimed: once a stop() has returned and no start() was called since
\* that stop() began, is_running() is false and the stored readings never
\* change again.
C3_Original ==
    [][ (stopReturned' /\ quiet' => ~is_running')
        /\ (stopReturned /\ quiet /\ stopReturned' /\ quiet' =>
              committed' = committed) ]_vars

\* C3 as amended: once a stop() has taken effect (passed its locked section)
\* and no start() was called after it, is_running() is false, no worker begins
\* a new tick, and the stored readings change only while a tick that was
\* already in progress completes.
C3_AfterStop ==
    [][ (quiet' => ~is_running')
        /\ (quiet /\ quiet' =>
              /\ \A w \in Threads : TickInProgress(w)' => TickInProgress(w)
              /\ (\A w \in Threads : ~TickInProgress(w)) => committed' = committed) ]_vars

\* a stop() has returned, no start() since, every worker has exited and the
\* store holds the readings written before
C3_Witness ==
    /\ quiet /\ stopReturned
    /\ \A w \in Threads : ~Alive(w)
    /\ \E w \in Threads : wpc[w] = "exited"
    /\ committed # {}

\* every tick present in S is present with all its rows
TickComplete(S) ==
    \A r \in S : \A i \in 1..NPairs :
        \E q \in S : q.ts_ms = r.ts_ms /\ <<q.machine_id, q.metric_key>> = PairAt(i)

\* C4: a tick's batch is atomic: the committed store holds each tick whole or
\* not at all, and a query on the shared connection never sees part of a tick.
C4_AtomicBatch ==
    [][ TickComplete(committed') /\ (resp' # resp => TickComplete(work)) ]_vars

\* C5: a write failure loses only that tick: the worker whose write ends,
\* whether it committed or failed, goes on to sleep for the period (and so to
\* the next tick), and is_running() is unchanged.
C5_SurvivesWriteFailure ==
    [][ \A w \in Threads :
          (wpc[w] = "write" /\ wpc'[w] # "write") =>
              (wpc'[w] = "sleep" /\ is_running' = is_running) ]_vars

\* the rows of S for one (machine_id, metric_key)
OfPair(S, m, k) == {r \in S : r.machine_id = m /\ r.metric_key = k}

RowSet(rows) == {rows[i] : i \in 1..Len(rows)}

\* C6: /latest returns, for every pair of the machine that has a stored
\* reading, exactly one row, the stored reading of maximum ts_ms (the rows of
\* a write transaction in flight may or may not count); and what it returns
\* is a stored reading, so it is in the append-only store from then on.
C6_LatestIsMax ==
    /\ [][ (resp' # resp /\ resp'.op = "latest" /\ resp'.status = 200) =>
             \A k \in Metrics :
               LET m == resp'.machine_id
                   got == {r \in RowSet(resp'.rows) : r.metric_key = k}
                   isMax(r, S) == r \in OfPair(S, m, k)
                                  /\ \A q \in OfPair(S, m, k) : q.ts_ms <= r.ts_ms
               IN  OfPair(committed, m, k) # {} =>
                     /\ Cardinality(got) = 1
                     /\ \A r \in got : isMax(r, committed) \/ isMax(r, work) ]_vars
    /\ [](resp.op = "latest" => RowSet(resp.rows) \subseteq work)

KeysUnique(S) == \A q, r \in S : ReadingKey(q) = ReadingKey(r) => q = r

\* C7: inserting a reading whose key is already stored changes nothing and
\* does not end the worker: the first value stays, committed readings are
\* never replaced, and no two readings share a key.
C7_DuplicateIgnored ==
    [][ /\ KeysUnique(work') /\ KeysUnique(committed')
        /\ committed \subseteq committed'
        /\ \A w \in Threads :
             (wpc[w] = "write" /\ widx'[w] = widx[w] + 1) =>
                 /\ work \subseteq work'
                 /\ HasKey(work, wrows[w][widx[w] + 1]) => work' = work
                 /\ wpc'[w] = "write" ]_vars

\* a worker has executed a row whose key was stored with another value, and
\* the store still holds the earlier one
C7_Witness ==
    \E w \in Threads :
        /\ wpc[w] = "write"
        /\ \E i \in 1..widx[w] : \E q \in work :
              ReadingKey(q) = ReadingKey(wrows[w][i]) /\ q.value # wrows[w][i].value

\* C10: the clock being monotonic, a tick never stamps its rows with a ts_ms
\* less than or equal to one an earlier tick has written.
C10_StrictlyIncreasing ==
    [][ \A w \in Threads :
          (~TickInProgress(w) /\ TickInProgress(w)') =>
              \A r \in work : r.ts_ms < now ]_vars

\* C8: /history returns exactly the min(limit, n) readings of largest ts_ms
\* among the n readings of the pair within the inclusive bounds.
C8_HistoryMostRecent ==
    (resp.op = "history" /\ resp.status = 200) =>
        LET M == {r \in OfPair(work, resp.machine_id, resp.metric_key) :
                    /\ (resp.start_ms # NoBound => r.ts_ms >= resp.start_ms)
                    /\ (resp.end_ms # NoBound => r.ts_ms <= resp.end_ms)}
            top == {r \in M : Cardinality({q \in M : q.ts_ms > r.ts_ms}) < resp.limit}
        IN  /\ Len(resp.rows) = Min(resp.limit, Cardinality(M))
            /\ RowSet(resp.rows) = {ReadingPoint(r) : r \in top}

\* a /history answer cut by its limit: more readings match than it returns
C8_Witness ==
    /\ resp.op = "history" /\ resp.status = 200
    /\ resp.limit = 2 /\ Len(resp.rows) = 2
    /\ resp.start_ms # NoBound
    /\ Cardinality({r \in OfPair(work, resp.machine_id, resp.metric_key) :
                       r.ts_ms >= resp.start_ms}) > 2

\* C9: every stop() call returns: at once, without waiting, when the
\* generator is already stopped, and otherwise when the worker has ended or
\* the timeout of the join has elapsed, whether or not the worker has ended.
C9_StopReturns ==
    /\ \A c \in Callers : (cpc[c] # "idle") ~> (cpc[c] = "idle")
    /\ [][ \A c \in Callers : (cpc[c] = "idle" /\ ~is_running) => cpc'[c] = "idle" ]_vars

\* a stop() has returned while the worker it stopped is still in its tick
C9_Witness ==
    /\ quiet /\ stopReturned
    /\ \A c \in Callers : cpc[c] = "idle"
    /\ \E w \in Threads : TickInProgress(w)

\* the rows of the tick worker w has computed that are of pair (m, k)
RowsOfPair(w, m, k) ==
    {i \in 1..Len(wrows[w]) :
        wrows[w][i].machine_id = m /\ wrows[w][i].metric_key = k}

\* C11: the rows a tick produces hold exactly one reading for each
\* (machine, metric) pair of the catalog and nothing else, and all of them
\* carry the same ts_ms.
C11_OneRowPerPair ==
    \A w \in Threads : TickInProgress(w) =>
        /\ \A m \in Machines, k \in Metrics : Cardinality(RowsOfPair(w, m, k)) = 1
        /\ Len(wrows[w]) = Cardinality(Machines) * Cardinality(Metrics)
        /\ \A i, j \in 1..Len(wrows[w]) : wrows[w][i].ts_ms = wrows[w][j].ts_ms

\* a worker has computed the rows of a tick begun after the clock moved
C11_Witness ==
    \E w \in Threads :
        /\ TickInProgress(w)
        /\ Len(wrows[w]) = NPairs
        /\ wrows[w][1].ts_ms > 0
        /\ wrows[w][1].metric_key # wrows[w][NPairs].metric_key

\* C12: for every store content, the points /history returns are strictly
\* ascending by ts_ms (no two share a ts_ms) and the rows /latest returns are
\* ascending by metric_key.
C12_Ordered ==
    /\ (resp.op = "history" /\ resp.status = 200) =>
          \A i \in 1..(Len(resp.rows) - 1) : resp.rows[i].ts_ms < resp.rows[i + 1].ts_ms
    /\ (resp.op = "latest" /\ resp.status = 200) =>
          \A i \in 1..(Len(resp.rows) - 1) :
              KeyRank(resp.rows[i].metric_key) <= KeyRank(resp.rows[i + 1].metric_key)

\* a /history answer of three points not cut by its limit
C12_Witness ==
    /\ resp.op = "history" /\ resp.status = 200
    /\ Len(resp.rows) = 3
    /\ resp.limit > 3

\* C13: /latest for a machine_id that is not in the catalog answers 404 with
\* no rows, whatever the store holds for that machine_id, and leaves the
\* store as it was.
C13_UnknownMachine ==
    /\ [](  (resp.op = "latest" /\ resp.machine_id \notin Machines) =>
                (resp.status = 404 /\ resp.rows = <<>>))
    /\ [][ (resp'.op = "latest" /\ resp'.machine_id \notin Machines) =>
                (committed' = committed /\ work' = work) ]_vars

\* /latest has answered 404 for an unlisted machine the store has readings of
C13_Witness ==
    /\ resp.op = "latest" /\ resp.status = 404
    /\ \E r \in work : r.machine_id = resp.machine_id

\* C14: /history with a limit outside [1, 5000] is rejected (422) with no
\* rows and without touching the store, never answered with a clamped limit;
\* a limit within [1, 5000] is used as given and an omitted limit is 500.
C14_LimitBounds ==
    /\ [](resp.op = "history" =>
            /\ (resp.given # NoBound /\ (resp.given < 1 \/ resp.given > 5000)) =>
                  (resp.status = 422 /\ resp.rows = <<>>)
            /\ (resp.given # NoBound /\ resp.given >= 1 /\ resp.given <= 5000) =>
                  (resp.status = 200 /\ resp.limit = resp.given
                   /\ Len(resp.rows) <= resp.given)
            /\ resp.given = NoBound => (resp.status = 200 /\ resp.limit = 500))
    /\ [][ resp'.op = "history" => (committed' = committed /\ work' = work) ]_vars

\* /history has rejected limit = 5001 for a pair the store has readings of
C14_Witness ==
    /\ resp.op = "history" /\ resp.status = 422 /\ resp.given = 5001
    /\ resp.start_ms = NoBound /\ resp.end_ms = NoBound
    /\ OfPair(work, resp.machine_id, resp.metric_key) # {}

\* C15: a migration script is applied atomically: when it fails part-way,
\* the store is as it was before the script began, its version is not
\* recorded, and apply_migrations ends there without going on to a later
\* script.
C15_AtomicScript ==
    [][ /\ (mig.pc = "script" /\ mig'.pc = "failed") =>
              /\ schema' = mig.pre
              /\ MigVersion \notin schema_migrations'
        /\ (mig.pc = "failed" /\ mig'.runs = mig.runs) => UNCHANGED migVars ]_vars

\* a script begins
ScriptBegins == mig.pc = "for" /\ mig'.pc = "script"

\* a version is recorded
VersionRecorded == schema_migrations' # schema_migrations

\* C16: apply_migrations is ordered and idempotent: a script begins only when
\* every version before it in lexical order is recorded; no statement of a
\* script takes effect twice and a version is recorded only if it was not
\* recorded before; and a run over a store in which every version is recorded
\* changes neither the schema nor the log.
C16_OrderedIdempotent ==
    [][ /\ ScriptBegins =>
              \A u \in Versions : u < MigVersion' => u \in schema_migrations
        /\ \A v \in Versions, i \in Stmts : schema'[v][i] <= 1
        /\ VersionRecorded =>
              (MigVersion \notin schema_migrations
               /\ schema_migrations' = schema_migrations \cup {MigVersion})
        /\ (mig'.pc # "idle" /\ mig'.applied = Versions) =>
              UNCHANGED <<schema, schema_migrations>> ]_vars

\* _value_for has returned a value for metric temperature
TemperatureDrawn == sample.metric_key = "temperature" /\ sample.value # NoValue

\* C17 as claimed: every value the generator produces for temperature lies
\* within [69.5, 75.5], for every t, machine phase, metric phase and noise.
C17_Original == TemperatureDrawn => (sample.value >= 695000 /\ sample.value <= 755000)

\* C17 as amended: every value the generator produces for temperature lies
\* within [64.5, 75.5], for every t, machine phase, metric phase and noise.
C17_TemperatureRange ==
    TemperatureDrawn => (sample.value >= 645000 /\ sample.value <= 755000)

\* the sine at its minimum and the noise at its lowest: 64.5
C17_Witness == TemperatureDrawn /\ sample.value = 645000

\* worker w was running when a stop() took effect: it is still alive and
\* either the generator is stopped or a later start() has replaced it
Signalled(w) == Alive(w) /\ (w < thread \/ ~running)

\* C18: a worker that was running when a stop() took effect observes the
\* stop signal at its next test of the loop condition and leaves the loop,
\* whatever start() and stop() calls follow: it never begins another tick.
C18_StoppedWorkerExits ==
    [][ \A w \in Threads :
          (Signalled(w) /\ wpc[w] = "loop") => wpc'[w] \in {"loop", "exited"} ]_vars

\* no start() holds the lock and no caller is inside stop()
NoCallInProgress == ~starting /\ \A c \in Callers : cpc[c] = "idle"

\* C19: whenever no start() or stop() call is in progress, is_running() is
\* true if and only if a worker thread is alive in the tick loop.
C19_RunningIffWorker ==
    NoCallInProgress => (is_running <=> \E w \in Threads : Alive(w))
=============================================================================
